---- MODULE Spec2Model ----
(***************************************************************************)
(* Model of server/tasks/discovery_artifact_manager.py.                    *)
(*                                                                         *)
(* Two specifications share the module:                                    *)
(*   SpecResolve  the read-only query discovery_documents, applied to an   *)
(*                arbitrary corpus (the cloned discoveries/ directory);    *)
(*   Spec         one run of update or create_pull_request, stepping       *)
(*                through _update_disco one external call at a time.       *)
(***************************************************************************)
EXTENDS Integers, Sequences, FiniteSets, TLC

VARIABLES
    \* ---- the corpus on disk and one call of discovery_documents
    filenames,   \* what glob('discoveries/*.json') returns, in scan order
    content,     \* path -> the 'id' read from that file (NoId: it has none)
    index,       \* the parsed discoveries/index.json
    args,        \* the arguments of the call (preferred, skip)
    result,      \* what the call returned or raised
    rpc,         \* "off" | "ready" | "returned"
    \* ---- one run of update / create_pull_request
    pc,          \* position of the run
    variant,     \* "update" | "create_pull_request"
    account,     \* the GitHubAccount passed in
    branch,      \* local variable `branch` of create_pull_request
    checkedOut,  \* branch checked out in the working copy
    gopath,      \* the TemporaryDirectory: "absent" | "present" | "removed"
    gosrc,       \* contents of the temporary directory
    worktree,    \* files changed in the working tree, not staged
    staged,      \* files staged for commit
    diff,        \* what diff_name_status returned
    commits,     \* local commits made by the run
    ret,         \* return value of _update_disco (-1: not returned)
    pending,     \* exception in flight inside the with block
    raised,      \* exception that reached the caller
    pushes,      \* pushes received by the remote
    pulls,       \* pull requests created on GitHub
    log          \* external calls made, in order

rvars == <<filenames, content, index, args, result, rpc>>
pvars == <<pc, variant, account, branch, checkedOut, gopath, gosrc, worktree, staged,
           diff, commits, ret, pending, raised, pushes, pulls, log>>
vars == <<filenames, content, index, args, result, rpc,
          pc, variant, account, branch, checkedOut, gopath, gosrc,
          worktree, staged, diff, commits, ret, pending, raised, pushes, pulls, log>>

Range(s) == {s[i] : i \in 1..Len(s)}

(***************************************************************************)
(* discovery_documents                                                     *)
(***************************************************************************)

\* Longest index (number of items) and longest skip list explored.
MaxItems == 2
MaxSkip == 2

_ACTUALLY_PREFERRED == <<"admin:directory_v1", "admin:datatransfer_v1">>

\* API ids occurring in documents, in the index and in skip lists.
Ids == {"admin:directory_v1", "admin:datatransfer_v1", "x:v1"}
\* What a document without an 'id' field holds.
NoId == "<missing>"

\* join(repo.filepath, 'discoveries/<base>.json')
Path(base) == [dir |-> "discoveries", base |-> base]
basename(x) == x.base
IndexPath == Path("index.json")
DocPaths == {Path("a.json"), Path("b.json")}

\* All orders in which a set of paths can be enumerated.
RECURSIVE Orders(_)
Orders(S) ==
    IF S = {} THEN {<<>>}
    ELSE UNION {{<<x>> \o t : t \in Orders(S \ {x})} : x \in S}

SeqsUpTo(S, n) == UNION {[1..k -> S] : k \in 0..n}

NoSkip == [none |-> TRUE, ids |-> <<>>]
SkipArgs == {NoSkip} \cup {[none |-> FALSE, ids |-> s] : s \in SeqsUpTo(Ids, MaxSkip)}

IndexItems == [id : Ids, preferred : BOOLEAN]
Indexes == {[ok |-> FALSE, items |-> <<>>]}
           \cup {[ok |-> TRUE, items |-> s] : s \in SeqsUpTo(IndexItems, MaxItems)}

Returned(ddocs) == [raised |-> "", ddocs |-> ddocs]
Raised(e) == [raised |-> e, ddocs |-> <<>>]

\* dict.pop(key, None)
Pop(ddocs, id_) == [k \in (DOMAIN ddocs) \ {id_} |-> ddocs[k]]

\* Mutant: the whole path, not its basename, is compared with 'index.json'.
SkipIndexJsonByPath(names) == SelectSeq(names, LAMBDA x : x.dir # "index.json")

\* line 63: drop index.json from the glob result
SkipIndexJson(names) == SelectSeq(names, LAMBDA x : basename(x) # "index.json")

\* Mutant: no test for an id already visited, so the last file seen wins.
RECURSIVE ScanLoopLastWins(_, _)
ScanLoopLastWins(names, ddocs) ==
    IF names = <<>> THEN Returned(ddocs)
    ELSE LET filename == Head(names)
             id_ == content[filename]
         IN  IF id_ = NoId THEN Raised("KeyError")
             ELSE ScanLoopLastWins(Tail(names),
                                   [k \in (DOMAIN ddocs) \cup {id_} |->
                                       IF k = id_ THEN filename ELSE ddocs[k]])

\* lines 64-72: the scan loop, first file seen for an id wins
RECURSIVE ScanLoop(_, _)
ScanLoop(names, ddocs) ==
    IF names = <<>> THEN Returned(ddocs)
    ELSE LET filename == Head(names)
             id_ == content[filename]
         IN  IF id_ = NoId THEN Raised("KeyError")
             ELSE IF id_ \in DOMAIN ddocs THEN ScanLoop(Tail(names), ddocs)
             ELSE ScanLoop(Tail(names),
                           [k \in (DOMAIN ddocs) \cup {id_} |->
                               IF k = id_ THEN filename ELSE ddocs[k]])

\* Mutant: a skipped id that is not in the mapping raises (pop without default).
RECURSIVE SkipLoopStrict(_, _)
SkipLoopStrict(ddocs, ids) ==
    IF ids = <<>> THEN Returned(ddocs)
    ELSE IF Head(ids) \notin DOMAIN ddocs THEN Raised("KeyError")
    ELSE SkipLoopStrict(Pop(ddocs, Head(ids)), Tail(ids))

\* line 74: pop every id of the skip list
RECURSIVE SkipLoop(_, _)
SkipLoop(ddocs, ids) ==
    IF ids = <<>> THEN Returned(ddocs)
    ELSE SkipLoop(Pop(ddocs, Head(ids)), Tail(ids))

\* lines 73-74: `if skip:` is false for None and for an empty list
ApplySkip(ddocs, skip) ==
    IF ~skip.none /\ Len(skip.ids) > 0 THEN SkipLoop(ddocs, skip.ids)
    ELSE Returned(ddocs)

InActuallyPreferred(id_) == id_ \in Range(_ACTUALLY_PREFERRED)

\* Mutant: no exemption for the ids of _ACTUALLY_PREFERRED.
RECURSIVE IndexLoopNoOverride(_, _)
IndexLoopNoOverride(items, ddocs) ==
    IF items = <<>> THEN Returned(ddocs)
    ELSE LET api == Head(items)
         IN  IF api.preferred THEN IndexLoopNoOverride(Tail(items), ddocs)
             ELSE IndexLoopNoOverride(Tail(items), Pop(ddocs, api.id))

\* Mutant: every indexed id is removed, whatever its preferred flag.
RECURSIVE IndexLoopIgnoreFlag(_, _)
IndexLoopIgnoreFlag(items, ddocs) ==
    IF items = <<>> THEN Returned(ddocs)
    ELSE LET api == Head(items)
         IN  IF InActuallyPreferred(api.id)
             THEN IndexLoopIgnoreFlag(Tail(items), ddocs)
             ELSE IndexLoopIgnoreFlag(Tail(items), Pop(ddocs, api.id))

\* lines 80-86: the loop over index['items']
RECURSIVE IndexLoop(_, _)
IndexLoop(items, ddocs) ==
    IF items = <<>> THEN Returned(ddocs)
    ELSE LET api == Head(items)
             id_ == api.id
         IN  IF InActuallyPreferred(id_) THEN IndexLoop(Tail(items), ddocs)
             ELSE IF api.preferred THEN IndexLoop(Tail(items), ddocs)
             ELSE IndexLoop(Tail(items), Pop(ddocs, id_))

\* lines 77-87
PreferredFilter(ddocs) ==
    IF ~index.ok THEN Raised("KeyError")
    ELSE IndexLoop(index.items, ddocs)

\* lines 46-87
discovery_documents(preferred, skip) ==
    LET names == SkipIndexJson(filenames)
        scanned == ScanLoop(names, <<>>)
    IN  IF scanned.raised # "" THEN scanned
        ELSE LET skipped == ApplySkip(scanned.ddocs, skip)
             IN  IF skipped.raised # "" THEN skipped
                 ELSE IF ~preferred THEN skipped
                 ELSE PreferredFilter(skipped.ddocs)

NoArgs == [preferred |-> FALSE, skip |-> NoSkip]

NoAccount == [name |-> "", email |-> "", personal_access_token |-> ""]
NotQueried == [queried |-> FALSE, files |-> {}]

\* The state of a run that has not started.
RunFresh ==
    /\ variant = "" /\ account = NoAccount /\ branch = "" /\ checkedOut = ""
    /\ gopath = "absent" /\ gosrc = {} /\ worktree = {} /\ staged = {}
    /\ diff = NotQueried /\ commits = <<>> /\ ret = -1
    /\ pending = "" /\ raised = ""
    /\ pushes = <<>> /\ pulls = <<>> /\ log = <<>>

RunIdle == pc = "off" /\ RunFresh

\* The corpus: index.json and any of the documents, enumerated in any order.
InitResolve ==
    /\ \E docs \in SUBSET DocPaths :
          /\ filenames \in Orders(docs \cup {IndexPath})
          /\ content \in [docs \cup {IndexPath} -> Ids \cup {NoId}]
          /\ content[IndexPath] = NoId
    /\ index \in Indexes
    /\ args = NoArgs
    /\ result = Returned(<<>>)
    /\ rpc = "ready"
    /\ RunIdle

Call ==
    /\ rpc = "ready"
    /\ \E preferred \in BOOLEAN, skip \in SkipArgs :
          /\ args' = [preferred |-> preferred, skip |-> skip]
          /\ result' = discovery_documents(preferred, skip)
    /\ rpc' = "returned"
    /\ UNCHANGED <<filenames, content, index>>
    /\ UNCHANGED pvars

NextResolve == Call

SpecResolve == InitResolve /\ [][NextResolve]_vars

(***************************************************************************)
(* update, _update_disco, create_pull_request                              *)
(***************************************************************************)

Accounts ==
    {[name |-> "bot", email |-> "bot@example.com", personal_access_token |-> "t1"],
     [name |-> "dev", email |-> "dev@example.com", personal_access_token |-> "t2"]}

\* datetime.now().strftime('%Y%m%d-%H%M%S')
Stamps == {"20170301-120000", "20170301-120001"}

\* 'update-discovery-artifacts-' + stamp
BranchName(stamp) ==
    IF stamp = "20170301-120000" THEN "update-discovery-artifacts-20170301-120000"
    ELSE "update-discovery-artifacts-20170301-120001"

\* The branch a fresh clone has checked out: the repository's default branch.
DefaultBranch == "master"

CommitMessage == "Autogenerated Discovery document update"
PullTitle == "chore: autogenerated discovery document update"

\* Files the regeneration tool may leave changed in the working tree.
OutsidePath == [dir |-> "src", base |-> "go.sum"]
ToolFiles == {Path("a.json"), IndexPath, OutsidePath}

\* Exit statuses of a child process.
ExitCodes == {0, 1}

\* check_output raises when the child exits non-zero.
check_output_raises(code) == code # 0

\* repo.add(paths): stage what changed under the given directories.
Repo_add(paths) == staged \cup {f \in worktree : f.dir \in paths}

\* repo.diff_name_status(): the staged changes relative to the last commit.
Repo_diff_name_status == staged

\* repo.commit(message, name, email): a commit of the staged changes.
Repo_commit(message, name, email) ==
    Append(commits, [message |-> message, name |-> name, email |-> email,
                     files |-> staged, branch |-> checkedOut])

\* repo.push(branch?): the named branch, or the current one, with its commits.
Repo_push(b) ==
    Append(pushes, [branch |-> IF b = "" THEN checkedOut ELSE b,
                    commits |-> commits])

\* The entry an external call leaves in the log.
Called(name, ok) == [call |-> name, ok |-> ok]

Fail(e) == /\ raised' = e
           /\ pc' = "raised"

\* ---------------------------------------------------------------- update
\* lines 98-99: clone the repository
update_clone ==
    /\ pc = "idle"
    /\ variant' = "update"
    /\ \E a \in Accounts : account' = a
    /\ \E ok \in BOOLEAN :
          /\ log' = Append(log, Called("clone", ok))
          /\ IF ok THEN /\ checkedOut' = DefaultBranch
                        /\ pc' = "mkdtemp"
                        /\ UNCHANGED raised
             ELSE /\ Fail("clone")
                  /\ UNCHANGED checkedOut
    /\ UNCHANGED <<branch, gopath, gosrc, worktree, staged, diff, commits, ret,
                   pending, pushes, pulls>>
    /\ UNCHANGED rvars

\* lines 100-101: push when _update_disco made a commit
update_push ==
    /\ pc = "returned" /\ variant = "update"
    /\ IF ret > 0
       THEN \E ok \in BOOLEAN :
               /\ log' = Append(log, Called("push", ok))
               /\ IF ok THEN /\ pushes' = Repo_push("")
                             /\ pc' = "done"
                             /\ UNCHANGED raised
                  ELSE /\ Fail("push")
                       /\ UNCHANGED pushes
       ELSE /\ pc' = "done"
            /\ UNCHANGED <<log, pushes, raised>>
    /\ UNCHANGED <<variant, account, branch, checkedOut, gopath, gosrc, worktree,
                   staged, diff, commits, ret, pending, pulls>>
    /\ UNCHANGED rvars

\* --------------------------------------------------------- _update_disco
\* line 105: with TemporaryDirectory() as gopath
EnterTemporaryDirectory ==
    /\ pc = "mkdtemp"
    /\ \E ok \in BOOLEAN :
          /\ log' = Append(log, Called("mkdtemp", ok))
          /\ IF ok THEN /\ gopath' = "present"
                        /\ pc' = "makedirs"
                        /\ UNCHANGED raised
             ELSE /\ Fail("OSError")
                  /\ UNCHANGED gopath
    /\ UNCHANGED <<variant, account, branch, checkedOut, gosrc, worktree, staged,
                   diff, commits, ret, pending, pushes, pulls>>
    /\ UNCHANGED rvars

\* line 106: os.makedirs(join(gopath, 'src'))
Makedirs ==
    /\ pc = "makedirs"
    /\ \E ok \in BOOLEAN :
          /\ log' = Append(log, Called("makedirs", ok))
          /\ IF ok THEN /\ gosrc' = {"src"}
                        /\ pc' = "ln"
                        /\ UNCHANGED pending
             ELSE /\ pending' = "OSError"
                  /\ pc' = "exit_with"
                  /\ UNCHANGED gosrc
    /\ UNCHANGED <<variant, account, branch, checkedOut, gopath, worktree, staged,
                   diff, commits, ret, raised, pushes, pulls>>
    /\ UNCHANGED rvars

\* lines 107-109: check_output(['ln', '-s', ...])
Symlink ==
    /\ pc = "ln"
    /\ \E code \in ExitCodes :
          /\ log' = Append(log, Called("ln", ~check_output_raises(code)))
          /\ IF check_output_raises(code)
             THEN /\ pending' = "CalledProcessError(ln)"
                  /\ pc' = "exit_with"
                  /\ UNCHANGED gosrc
             ELSE /\ gosrc' = gosrc \cup {"src/discovery-artifact-manager"}
                  /\ pc' = "go"
                  /\ UNCHANGED pending
    /\ UNCHANGED <<variant, account, branch, checkedOut, gopath, worktree, staged,
                   diff, commits, ret, raised, pushes, pulls>>
    /\ UNCHANGED rvars

\* lines 110-114: check_output(['go', 'run', ...], cwd=repo.filepath, env=env)
GoRun ==
    /\ pc = "go"
    /\ \E changed \in SUBSET ToolFiles : worktree' = changed
    /\ \E code \in ExitCodes :
          /\ log' = Append(log, Called("go", ~check_output_raises(code)))
          /\ IF check_output_raises(code)
             THEN pending' = "CalledProcessError(go)"
             ELSE UNCHANGED pending
    /\ pc' = "exit_with"
    /\ UNCHANGED <<variant, account, branch, checkedOut, gopath, gosrc, staged,
                   diff, commits, ret, raised, pushes, pulls>>
    /\ UNCHANGED rvars

\* Mutant: the directory is removed by a call at the end of the block, which
\* an exception skips.
ExitTemporaryDirectoryNoFinally ==
    /\ pc = "exit_with"
    /\ IF pending # ""
       THEN /\ Fail(pending)
            /\ UNCHANGED <<gopath, gosrc, log>>
       ELSE /\ gopath' = "removed"
            /\ gosrc' = {}
            /\ log' = Append(log, Called("rmtree", TRUE))
            /\ pc' = "add"
            /\ UNCHANGED raised
    /\ pending' = ""
    /\ UNCHANGED <<variant, account, branch, checkedOut, worktree, staged, diff,
                   commits, ret, pushes, pulls>>
    /\ UNCHANGED rvars

\* Mutant: the failure of the child process is swallowed.
ExitTemporaryDirectorySwallow ==
    /\ pc = "exit_with"
    /\ gopath' = "removed"
    /\ gosrc' = {}
    /\ log' = Append(log, Called("rmtree", TRUE))
    /\ pc' = "add"
    /\ pending' = ""
    /\ UNCHANGED <<variant, account, branch, checkedOut, worktree, staged, diff,
                   commits, ret, raised, pushes, pulls>>
    /\ UNCHANGED rvars

\* lines 105-114: leaving the with block, normally or by an exception
ExitTemporaryDirectory ==
    /\ pc = "exit_with"
    /\ gopath' = "removed"
    /\ gosrc' = {}
    /\ log' = Append(log, Called("rmtree", TRUE))
    /\ IF pending # ""
       THEN Fail(pending)
       ELSE /\ pc' = "add"
            /\ UNCHANGED raised
    /\ pending' = ""
    /\ UNCHANGED <<variant, account, branch, checkedOut, worktree, staged, diff,
                   commits, ret, pushes, pulls>>
    /\ UNCHANGED rvars

\* line 115: repo.add(['discoveries'])
Add ==
    /\ pc = "add"
    /\ \E ok \in BOOLEAN :
          /\ log' = Append(log, Called("add", ok))
          /\ IF ok THEN /\ staged' = Repo_add({"discoveries"})
                        /\ worktree' = worktree \ Repo_add({"discoveries"})
                        /\ pc' = "diff"
                        /\ UNCHANGED raised
             ELSE /\ Fail("add")
                  /\ UNCHANGED <<staged, worktree>>
    /\ UNCHANGED <<variant, account, branch, checkedOut, gopath, gosrc, diff,
                   commits, ret, pending, pushes, pulls>>
    /\ UNCHANGED rvars

\* Mutant: the test of the diff is inverted.
DiffNameStatusInverted ==
    /\ pc = "diff"
    /\ \E ok \in BOOLEAN :
          /\ log' = Append(log, Called("diff", ok))
          /\ IF ok
             THEN /\ diff' = [queried |-> TRUE, files |-> Repo_diff_name_status]
                  /\ IF Repo_diff_name_status # {}
                     THEN /\ ret' = 0
                          /\ pc' = "returned"
                     ELSE /\ pc' = "commit"
                          /\ UNCHANGED ret
                  /\ UNCHANGED raised
             ELSE /\ Fail("diff")
                  /\ UNCHANGED <<diff, ret>>
    /\ UNCHANGED <<variant, account, branch, checkedOut, gopath, gosrc, worktree,
                   staged, commits, pending, pushes, pulls>>
    /\ UNCHANGED rvars

\* lines 116-117: if not repo.diff_name_status(): return 0
DiffNameStatus ==
    /\ pc = "diff"
    /\ \E ok \in BOOLEAN :
          /\ log' = Append(log, Called("diff", ok))
          /\ IF ok
             THEN /\ diff' = [queried |-> TRUE, files |-> Repo_diff_name_status]
                  /\ IF Repo_diff_name_status = {}
                     THEN /\ ret' = 0
                          /\ pc' = "returned"
                     ELSE /\ pc' = "commit"
                          /\ UNCHANGED ret
                  /\ UNCHANGED raised
             ELSE /\ Fail("diff")
                  /\ UNCHANGED <<diff, ret>>
    /\ UNCHANGED <<variant, account, branch, checkedOut, gopath, gosrc, worktree,
                   staged, commits, pending, pushes, pulls>>
    /\ UNCHANGED rvars

\* Mutant: the commit is attributed to the process's default identity.
CommitDefaultAuthor ==
    /\ pc = "commit"
    /\ \E ok \in BOOLEAN :
          /\ log' = Append(log, Called("commit", ok))
          /\ IF ok THEN /\ commits' = Repo_commit(CommitMessage, "", "")
                        /\ staged' = {}
                        /\ ret' = 1
                        /\ pc' = "returned"
                        /\ UNCHANGED raised
             ELSE /\ Fail("commit")
                  /\ UNCHANGED <<commits, staged, ret>>
    /\ UNCHANGED <<variant, account, branch, checkedOut, gopath, gosrc, worktree,
                   diff, pending, pushes, pulls>>
    /\ UNCHANGED rvars

\* lines 118-121: commit and return 1
Commit ==
    /\ pc = "commit"
    /\ \E ok \in BOOLEAN :
          /\ log' = Append(log, Called("commit", ok))
          /\ IF ok THEN /\ commits' = Repo_commit(CommitMessage, account.name,
                                                  account.email)
                        /\ staged' = {}
                        /\ ret' = 1
                        /\ pc' = "returned"
                        /\ UNCHANGED raised
             ELSE /\ Fail("commit")
                  /\ UNCHANGED <<commits, staged, ret>>
    /\ UNCHANGED <<variant, account, branch, checkedOut, gopath, gosrc, worktree,
                   diff, pending, pushes, pulls>>
    /\ UNCHANGED rvars

\* --------------------------------------------------- create_pull_request
\* lines 131-132: clone the repository
create_pull_request_clone ==
    /\ pc = "idle"
    /\ variant' = "create_pull_request"
    /\ \E a \in Accounts : account' = a
    /\ \E ok \in BOOLEAN :
          /\ log' = Append(log, Called("clone", ok))
          /\ IF ok THEN /\ checkedOut' = DefaultBranch
                        /\ pc' = "checkout_new"
                        /\ UNCHANGED raised
             ELSE /\ Fail("clone")
                  /\ UNCHANGED checkedOut
    /\ UNCHANGED <<branch, gopath, gosrc, worktree, staged, diff, commits, ret,
                   pending, pushes, pulls>>
    /\ UNCHANGED rvars

\* lines 133-135: name the branch after the current time and check it out
create_pull_request_checkout_new ==
    /\ pc = "checkout_new"
    /\ \E stamp \in Stamps : branch' = BranchName(stamp)
    /\ \E ok \in BOOLEAN :
          /\ log' = Append(log, Called("checkout_new", ok))
          /\ IF ok THEN /\ checkedOut' = branch'
                        /\ pc' = "mkdtemp"
                        /\ UNCHANGED raised
             ELSE /\ Fail("checkout_new")
                  /\ UNCHANGED checkedOut
    /\ UNCHANGED <<variant, account, gopath, gosrc, worktree, staged, diff,
                   commits, ret, pending, pushes, pulls>>
    /\ UNCHANGED rvars

\* Mutant: the branch is never pushed before the pull request is opened.
create_pull_request_no_push ==
    /\ pc = "returned" /\ variant = "create_pull_request"
    /\ IF ret > 0
       THEN pc' = "get_repo"
       ELSE pc' = "done"
    /\ UNCHANGED <<log, pushes, raised>>
    /\ UNCHANGED <<variant, account, branch, checkedOut, gopath, gosrc, worktree,
                   staged, diff, commits, ret, pending, pulls>>
    /\ UNCHANGED rvars

\* lines 136-137: push the branch when _update_disco made a commit
create_pull_request_push ==
    /\ pc = "returned" /\ variant = "create_pull_request"
    /\ IF ret > 0
       THEN \E ok \in BOOLEAN :
               /\ log' = Append(log, Called("push", ok))
               /\ IF ok THEN /\ pushes' = Repo_push(branch)
                             /\ pc' = "get_repo"
                             /\ UNCHANGED raised
                  ELSE /\ Fail("push")
                       /\ UNCHANGED pushes
       ELSE /\ pc' = "done"
            /\ UNCHANGED <<log, pushes, raised>>
    /\ UNCHANGED <<variant, account, branch, checkedOut, gopath, gosrc, worktree,
                   staged, diff, commits, ret, pending, pulls>>
    /\ UNCHANGED rvars

\* lines 138-139: Github(token).get_repo(path)
create_pull_request_get_repo ==
    /\ pc = "get_repo"
    /\ \E ok \in BOOLEAN :
          /\ log' = Append(log, Called("get_repo", ok))
          /\ IF ok THEN /\ pc' = "create_pull"
                        /\ UNCHANGED raised
             ELSE Fail("get_repo")
    /\ UNCHANGED <<variant, account, branch, checkedOut, gopath, gosrc, worktree,
                   staged, diff, commits, ret, pending, pushes, pulls>>
    /\ UNCHANGED rvars

\* lines 140-144: gh_repo.create_pull(title, body, base, head)
create_pull_request_create_pull ==
    /\ pc = "create_pull"
    /\ \E ok \in BOOLEAN :
          /\ log' = Append(log, Called("create_pull", ok))
          /\ IF ok THEN /\ pulls' = Append(pulls,
                              [title |-> PullTitle, body |-> "", base |-> "master",
                               head |-> branch,
                               token |-> account.personal_access_token])
                        /\ pc' = "done"
                        /\ UNCHANGED raised
             ELSE /\ Fail("create_pull")
                  /\ UNCHANGED pulls
    /\ UNCHANGED <<variant, account, branch, checkedOut, gopath, gosrc, worktree,
                   staged, diff, commits, ret, pending, pushes>>
    /\ UNCHANGED rvars

\* A run has not started; no call of discovery_documents is made.
Init ==
    /\ pc = "idle"
    /\ RunFresh
    /\ filenames = <<>>
    /\ content = <<>>
    /\ index = [ok |-> TRUE, items |-> <<>>]
    /\ args = NoArgs
    /\ result = Returned(<<>>)
    /\ rpc = "off"

\* lines 103-121, one external call at a time
_update_disco ==
    \/ EnterTemporaryDirectory
    \/ Makedirs
    \/ Symlink
    \/ GoRun
    \/ ExitTemporaryDirectory
    \/ Add
    \/ DiffNameStatus
    \/ Commit

\* lines 90-101, around the call of _update_disco
update ==
    \/ update_clone
    \/ update_push

\* lines 124-144, around the call of _update_disco
create_pull_request ==
    \/ create_pull_request_clone
    \/ create_pull_request_checkout_new
    \/ create_pull_request_push
    \/ create_pull_request_get_repo
    \/ create_pull_request_create_pull

Next ==
    \/ update
    \/ _update_disco
    \/ create_pull_request

Spec == Init /\ [][Next]_vars

(***************************************************************************)
(* Properties of update, _update_disco and create_pull_request             *)
(***************************************************************************)

Calls(name) == {i \in 1..Len(log) : log[i].call = name}
Succeeded(name) == {i \in 1..Len(log) : log[i] = Called(name, TRUE)}
FailedCall(name) == \E i \in 1..Len(log) : log[i] = Called(name, FALSE)
Terminal == pc \in {"done", "raised"}

\* C1: in both variants, when the staged name-status diff after regeneration
\* is empty, _update_disco returns 0 and the run makes no commit, no push and
\* no pull request, up to and including its end.
C1_EmptyDiffPublishesNothing ==
    (diff.queried /\ diff.files = {}) =>
        /\ ret = 0
        /\ pc \in {"returned", "done"}
        /\ commits = <<>> /\ pushes = <<>> /\ pulls = <<>>
        /\ Calls("commit") = {} /\ Calls("push") = {} /\ Calls("create_pull") = {}

\* The run of create_pull_request ended after an empty staged diff, although
\* the tool changed a file outside discoveries/.
C1_Witness ==
    /\ pc = "done" /\ variant = "create_pull_request"
    /\ diff.queried /\ diff.files = {}
    /\ worktree = {OutsidePath}

\* C2: when regeneration succeeded, the staged diff is non-empty and neither
\* the commit nor the push failed, then at the end of the run _update_disco
\* has returned 1 and exactly one commit was made, with the fixed message and
\* the account's name and email, followed by exactly one push that carries it.
C2_ChangeCommittedThenPushed ==
    (/\ Terminal
     /\ diff.queried /\ diff.files # {}
     /\ ~FailedCall("commit") /\ ~FailedCall("push")) =>
        /\ ret = 1
        /\ Len(commits) = 1
        /\ commits[1].message = "Autogenerated Discovery document update"
        /\ commits[1].name = account.name
        /\ commits[1].email = account.email
        /\ commits[1].files = diff.files
        /\ Len(pushes) = 1
        /\ pushes[1].commits = commits
        /\ Cardinality(Calls("commit")) = 1
        /\ Cardinality(Calls("push")) = 1
        /\ \A i \in Calls("commit"), j \in Calls("push") : i < j

\* The run of update ended with its commit pushed.
C2_Witness ==
    /\ pc = "done" /\ variant = "update"
    /\ diff.queried /\ diff.files # {}
    /\ Len(commits) = 1 /\ Len(pushes) = 1

ToolFailed == FailedCall("ln") \/ FailedCall("go")
AfterTool == {"add", "diff", "commit", "push", "get_repo", "create_pull"}

\* C3: when the regeneration tool, or the symlink set up before it, exits
\* non-zero, no later step runs in either variant: nothing is staged, the diff
\* is not queried, nothing is committed, pushed or requested for review, and
\* the error is what the caller receives.
C3_ToolFailureAborts ==
    ToolFailed =>
        /\ pc \in {"exit_with", "raised"}
        /\ \A i \in 1..Len(log) : log[i].call \notin AfterTool
        /\ staged = {} /\ ~diff.queried /\ ret = -1
        /\ commits = <<>> /\ pushes = <<>> /\ pulls = <<>>
        /\ pc = "exit_with" =>
              pending \in {"CalledProcessError(ln)", "CalledProcessError(go)"}
        /\ pc = "raised" =>
              raised \in {"CalledProcessError(ln)", "CalledProcessError(go)"}

\* The tool failed after changing documents, and the caller has the error.
C3_Witness ==
    /\ pc = "raised" /\ raised = "CalledProcessError(go)"
    /\ FailedCall("go")
    /\ worktree # {}
    /\ variant = "create_pull_request"

InsideWith == {"makedirs", "ln", "go", "exit_with"}

\* C4: the temporary directory exists, with the symlink in it, when the tool
\* is invoked, and it exists at no position outside the with block: not when
\* staging begins after the tool's success, and in no terminal state, whether
\* the tool failed or the set-up before it did.
C4_TemporaryDirectoryScoped ==
    /\ pc = "go" => /\ gopath = "present"
                    /\ gosrc = {"src", "src/discovery-artifact-manager"}
    /\ pc \in InsideWith => gopath = "present"
    /\ pc \notin InsideWith => gopath # "present" /\ gosrc = {}
    /\ Calls("go") # {} /\ pc # "exit_with" => gopath = "removed"
    /\ Calls("makedirs") # {} /\ Terminal => gopath = "removed"

\* The set-up of the directory failed and the run ended with it removed.
C4_Witness ==
    /\ pc = "raised" /\ FailedCall("makedirs")
    /\ gopath = "removed"

Docs == {f \in Range(filenames) : f # IndexPath}
Carrying(id) == {f \in Docs : content[f] = id}
Position(f) == CHOOSE i \in 1..Len(filenames) : filenames[i] = f
\* The file carrying id that the scan order enumerates first.
FirstCarrying(id) ==
    CHOOSE f \in Carrying(id) : \A g \in Carrying(id) : Position(f) <= Position(g)
MalformedDoc == \E f \in Docs : content[f] = NoId
SkipEmpty == args.skip.none \/ args.skip.ids = <<>>
SkipSet == Range(args.skip.ids)
Restrict(ddocs, keys) == [k \in (DOMAIN ddocs) \cap keys |-> ddocs[k]]

\* C6: in any scan order, when two or more files carry the same id the call
\* does not fail on that account (it fails only for a document without an id
\* or an unreadable index), an entry for the id always holds the file that
\* comes first in the scan order, and with nothing skipped or filtered the
\* id is in the mapping.
C6_FirstFileWins ==
    rpc = "returned" =>
        \A id \in Ids : Cardinality(Carrying(id)) >= 2 =>
            /\ result.raised # "" =>
                  MalformedDoc \/ (args.preferred /\ ~index.ok)
            /\ (result.raised = "" /\ id \in DOMAIN result.ddocs) =>
                  result.ddocs[id] = FirstCarrying(id)
            /\ (~MalformedDoc /\ ~args.preferred /\ SkipEmpty) =>
                  /\ result.raised = ""
                  /\ id \in DOMAIN result.ddocs

\* Two files carry x:v1, b.json is enumerated before a.json, and b.json is
\* the value returned.
C6_Witness ==
    /\ rpc = "returned" /\ result.raised = ""
    /\ Carrying("x:v1") = DocPaths
    /\ Position(Path("b.json")) < Position(Path("a.json"))
    /\ "x:v1" \in DOMAIN result.ddocs
    /\ result.ddocs["x:v1"] = Path("b.json")

\* C7: for every corpus, index, preferred flag and skip list S (empty, or
\* naming ids that are not in the corpus), the call with skip=S returns what
\* the call with skip=None returns, restricted to the keys not in S, and
\* raises only where that call raises.
C7_SkipIsSetDifference ==
    rpc = "returned" =>
        LET plain == discovery_documents(args.preferred, NoSkip)
        IN  IF plain.raised # "" THEN result = plain
            ELSE /\ result.raised = ""
                 /\ result.ddocs = Restrict(plain.ddocs, Ids \ SkipSet)

\* A preferred call skipped an id that no document carries and returned a
\* non-empty mapping.
C7_Witness ==
    /\ rpc = "returned" /\ result.raised = "" /\ args.preferred
    /\ ~args.skip.none
    /\ \E id \in SkipSet : Carrying(id) = {}
    /\ DOMAIN result.ddocs # {}

\* C8: with preferred=True, an id of the override set that has a document in
\* the corpus and is not skipped is in the result, mapped to the same file as
\* with preferred=False, whatever the entries of the index say about it.
C8_OverrideIdsKept ==
    (rpc = "returned" /\ args.preferred /\ index.ok /\ ~MalformedDoc) =>
        \A id \in {"admin:directory_v1", "admin:datatransfer_v1"} :
            (Carrying(id) # {} /\ id \notin SkipSet) =>
                /\ result.raised = ""
                /\ id \in DOMAIN result.ddocs
                /\ result.ddocs[id] =
                      discovery_documents(FALSE, args.skip).ddocs[id]

\* Every entry of the index marks admin:datatransfer_v1 as not preferred, and
\* the preferred call returns it.
C8_Witness ==
    /\ rpc = "returned" /\ args.preferred /\ index.ok
    /\ Len(index.items) = MaxItems
    /\ \A i \in 1..Len(index.items) :
          index.items[i] = [id |-> "admin:datatransfer_v1", preferred |-> FALSE]
    /\ result.raised = ""
    /\ "admin:datatransfer_v1" \in DOMAIN result.ddocs

\* Ids the index marks as not preferred, less the override set.
NotPreferred ==
    {id \in Ids \ {"admin:directory_v1", "admin:datatransfer_v1"} :
        \E i \in 1..Len(index.items) :
            index.items[i].id = id /\ ~index.items[i].preferred}

\* C9: with preferred=True the filter removes exactly the ids that have an
\* index entry with preferred=false and are not in the override set, without
\* error when such an id has no document; every other id keeps its file, and
\* the index adds nothing.
C9_PreferredFilterRemovesExactly ==
    (rpc = "returned" /\ args.preferred /\ index.ok /\ ~MalformedDoc) =>
        LET unfiltered == discovery_documents(FALSE, args.skip).ddocs
        IN  /\ result.raised = ""
            /\ DOMAIN result.ddocs = (DOMAIN unfiltered) \ NotPreferred
            /\ \A id \in DOMAIN result.ddocs : result.ddocs[id] = unfiltered[id]

\* The index lists x:v1 as preferred only, a document carries it, and it is
\* in the result of the preferred call.
C9_Witness ==
    /\ rpc = "returned" /\ args.preferred /\ index.ok
    /\ index.items # <<>>
    /\ \A i \in 1..Len(index.items) :
          index.items[i] = [id |-> "x:v1", preferred |-> TRUE]
    /\ result.raised = ""
    /\ "x:v1" \in DOMAIN result.ddocs

DistinctIds ==
    /\ ~MalformedDoc
    /\ \A f, g \in Docs : content[f] = content[g] => f = g

\* C10: when the document files carry pairwise distinct ids, the call with
\* preferred=False and skip=None returns exactly one entry per document file
\* other than index.json, keyed by the file's id and holding the file's path;
\* and whatever the corpus and the arguments, index.json is never a value.
C10_OneEntryPerDocument ==
    rpc = "returned" =>
        /\ (DistinctIds /\ ~args.preferred /\ args.skip.none) =>
              /\ result.raised = ""
              /\ DOMAIN result.ddocs = {content[f] : f \in Docs}
              /\ Cardinality(DOMAIN result.ddocs) = Cardinality(Docs)
              /\ \A f \in Docs : result.ddocs[content[f]] = f
        /\ \A id \in DOMAIN result.ddocs :
              /\ result.ddocs[id] # IndexPath
              /\ basename(result.ddocs[id]) # "index.json"

\* index.json is enumerated first, before two documents with distinct ids,
\* and the plain call returns two entries.
C10_Witness ==
    /\ rpc = "returned" /\ ~args.preferred /\ args.skip.none
    /\ filenames[1] = IndexPath
    /\ Cardinality(Docs) = 2 /\ DistinctIds
    /\ Cardinality(DOMAIN result.ddocs) = 2

====
